---------------------------- MODULE Spec2Model ----------------------------
(***************************************************************************)
(* Model of mercadolibre-scraping-whatsapp-msg.py: the paginated search    *)
(* client (fetch_offers), the offer store (the sqlite table "offers"), the *)
(* reconciliation run (job) and the notifier (send_notification).          *)
(*                                                                         *)
(* Representation.                                                         *)
(*  - A Python dict is an insertion-ordered sequence of its values; the    *)
(*    key of a value is its "id" field (both dicts of the program are      *)
(*    keyed by item.get("id")).                                            *)
(*  - A string is represented by its length when only its length and its   *)
(*    identity matter (title, permalink), and a message text is the        *)
(*    sequence of the pieces it was concatenated from (the header line and *)
(*    one block per offer).  The length of a text is the sum of the        *)
(*    lengths of its pieces; the program never slices a text, so two texts *)
(*    built from the same pieces in the same order are the same string.    *)
(***************************************************************************)
EXTENDS Integers, Sequences, FiniteSets, TLC

VARIABLES
    pc,                   \* position of the single thread
    run,                  \* number of runs of job() started so far
    qi,                   \* index into lista_busquedas of the next query
    offset,               \* fetch_offers: loop variable
    all_offers,           \* fetch_offers: dict id -> item
    response,             \* fetch_offers: the last page response
    requests,             \* history: offsets requested by the current call
    fetched,              \* history: what the fetches of this run came to
    all_current_offers,   \* job: dict id -> item merged over all queries
    store,                \* the rows of table offers, keyed by id
    existing_offer_ids,   \* job: snapshot read by get_existing_offer_ids
    new_offers,           \* job: list of new items
    ai,                   \* job: index of the next item of new_offers to add
    disappeared_offer_ids,\* job: ids in the snapshot and not in the results
    removed,              \* job: ids of disappeared_offer_ids already visited
    message_text,         \* send_notification: the single candidate message
    messages,             \* send_notification: the sealed message parts
    mi,                   \* send_notification: index of the next part
    calls,                \* history: transport calls of this run, in order
    hist                  \* history across runs (see NextHist)

fetchVars  == <<offset, all_offers, response, requests>>
mergeVars  == <<qi, fetched, all_current_offers>>
diffVars   == <<existing_offer_ids, new_offers, ai, disappeared_offer_ids,
               removed>>
notifyVars == <<message_text, messages, mi, calls>>
vars == <<pc, run, fetchVars, mergeVars, store, diffVars, notifyVars, hist>>

---------------------------------------------------------------------------
(* Bounds of the model. *)
MaxRuns   == 3   \* runs of job() explored
MaxPages  == 2   \* pages served to a fetch_offers call taken as one step
MaxOffers == 3   \* length of new_offers when send_notification runs alone

(* Program constants. *)
PageSize   == 50      \* step of range(0, 1001, 50) and the "< 50" test
MaxOffset  == 1000    \* range(0, 1001, 50): last offset requested
MsgLimit   == 1600    \* the 1600-character limit
HeaderLen  == 26      \* len("New 'Usado' offers found:\n")

lista_busquedas == <<"RTX Usado", "GTX Usado">>

---------------------------------------------------------------------------
(* Items of the search endpoint: id, title, price, permalink.  A title and *)
(* a permalink are given by their length.  Two ids are served, each under  *)
(* two titles, so that the same id can come back with different fields;    *)
(* with price and permalink as below the blocks of the two titles are 700  *)
(* and 1574 characters long.                                               *)
Ids    == {"MLU1", "MLU2"}
Titles == {660, 1534}
Prices == {100}
Links  == {26}
Offers == [id : Ids, title : Titles, price : Prices, permalink : Links]

(* Python dict, keyed by the id of the value. *)
Keys(d) == {d[i].id : i \in DOMAIN d}
IndexOf(d, k) == CHOOSE i \in DOMAIN d : d[i].id = k
Get(d, k) == d[IndexOf(d, k)]
UniqueIds(d) == \A i, j \in DOMAIN d : d[i].id = d[j].id => i = j

\* the indices in S, ascending
Ascending(S) ==
    [k \in 1..Cardinality(S) |->
        CHOOSE i \in S : Cardinality({j \in S : j <= i}) = k]

\* positions of lst holding the first occurrence of an id that d lacks
FirstNew(d, lst) ==
    {i \in DOMAIN lst :
        /\ lst[i].id \notin Keys(d)
        /\ \A j \in 1..(i - 1) : lst[j].id # lst[i].id}

\* the last item of lst with id k
LastWith(lst, k) ==
    lst[CHOOSE i \in DOMAIN lst :
            /\ lst[i].id = k
            /\ \A j \in (i + 1)..Len(lst) : lst[j].id # k]

(* The two loops over a list that fill a dict, in closed form.  Python     *)
(* dicts keep insertion order: a new key is appended when it is first      *)
(* assigned, and assigning an existing key keeps its position.             *)

\* for item in lst: if item.id not in d: d[item.id] = item
AddIfAbsentAll(d, lst) ==
    LET new == Ascending(FirstNew(d, lst))
    IN  d \o [k \in DOMAIN new |-> lst[new[k]]]

\* for item in lst: d[item.id] = item
AssignAll(d, lst) ==
    LET new == Ascending(FirstNew(d, lst))
    IN  [i \in DOMAIN d |->
            IF d[i].id \in Keys(lst) THEN LastWith(lst, d[i].id) ELSE d[i]]
        \o [k \in DOMAIN new |-> LastWith(lst, lst[new[k]].id)]

---------------------------------------------------------------------------
(* fetch_offers. *)
(* A page response: the parsed "results" array, or an exception raised by  *)
(* requests.get / response.json.                                           *)
Page(res)  == [status |-> "ok", results |-> res]
Fail       == [status |-> "exception", results |-> <<>>]
NoResponse == [status |-> "none", results |-> <<>>]

\* lines 65-69: for item in results: add if not already present
AddResults_Overwrite(d, res) == AssignAll(d, res)
AddResults(d, res) == AddIfAbsentAll(d, res)

\* the dict after one page response (an exception leaves it as it was)
PageStep(d, r) == IF r.status = "ok" THEN AddResults(d, r.results) ELSE d

\* whether the loop breaks after this response
Breaks_NoShortPageTest(r) == r.status # "ok" \/ Len(r.results) = 0
Breaks(r) ==
    r.status # "ok" \/ Len(r.results) = 0 \/ Len(r.results) < PageSize

\* the last offset of range(0, 1001, 50)
LastOffset_OneMore == MaxOffset + PageSize
LastOffset == MaxOffset

\* whether the for loop runs another iteration after response r at offset off
Continues(r, off) == ~Breaks(r) /\ off + PageSize <= LastOffset

(* Page responses served by the endpoint. *)
FullPage(a) == Page([i \in 1..PageSize |-> a])
ShortPages == {Page(<<>>)} \cup {Page(<<a>>) : a \in Offers}
                           \cup {Page(<<a, b>>) : a, b \in Offers}
FullPages == {FullPage(a) : a \in Offers}
Responses == ShortPages \cup FullPages \cup {Fail}

(* fetch_offers, one loop iteration per step: job's "for query" loop calls *)
(* it (CallFetch), each iteration requests one page (FetchPage), and job   *)
(* merges the returned list (MergeOffers).                                 *)
CallFetch ==
    /\ pc = "loop"
    /\ qi <= Len(lista_busquedas)
    /\ pc' = "page"
    /\ all_offers' = <<>>
    /\ offset' = 0
    /\ requests' = <<>>
    /\ response' = NoResponse
    /\ UNCHANGED <<run, mergeVars, store, diffVars, notifyVars, hist>>

FetchPage ==
    /\ pc = "page"
    /\ \E r \in Responses :
        /\ response' = r
        /\ requests' = Append(requests, offset)
        /\ all_offers' = PageStep(all_offers, r)
        /\ IF Continues(r, offset)
           THEN pc' = "page" /\ offset' = offset + PageSize
           ELSE pc' = "return" /\ offset' = offset
    /\ UNCHANGED <<run, mergeVars, store, diffVars, notifyVars, hist>>

\* history of the fetches of a run: whether one ended by an exception and
\* whether one returned an offer
NoneFetched == [failed |-> FALSE, any |-> FALSE]
Fetched(h, lst, failed) ==
    [failed |-> h.failed \/ failed, any |-> h.any \/ lst # <<>>]

\* lines 190-191: for item in offers: all_current_offers[item["id"]] = item
Merge_FirstWins(d, lst) == AddIfAbsentAll(d, lst)
Merge(d, lst) == AssignAll(d, lst)

MergeOffers ==
    /\ pc = "return"
    /\ fetched' = Fetched(fetched, all_offers, response.status = "exception")
    /\ all_current_offers' = Merge(all_current_offers, all_offers)
    /\ qi' = qi + 1
    /\ pc' = "loop"
    /\ UNCHANGED <<run, fetchVars, store, diffVars, notifyVars, hist>>

---------------------------------------------------------------------------
(* send_notification. *)

\* len(str(n)) of a non-negative integer
RECURSIVE Digits(_)
Digits(n) == IF n < 10 THEN 1 ELSE 1 + Digits(n \div 10)

\* "New 'Usado' offers found:\n"
Header == [kind |-> "header"]
\* f"- {title} for ${price}\n{link}\n\n": the block shows the three fields
Block(item) == [kind |-> "offer", title |-> item.title,
                price |-> item.price, permalink |-> item.permalink]

PieceLen(p) ==
    IF p.kind = "header" THEN HeaderLen
    ELSE 2 + p.title + 6 + Digits(p.price) + 1 + p.permalink + 2

RECURSIVE TextLen(_)
\* len(text)
TextLen(t) == IF t = <<>> THEN 0 ELSE PieceLen(Head(t)) + TextLen(Tail(t))

RECURSIVE Blocks(_)
\* the blocks of a list of items, concatenated in list order
Blocks(items) ==
    IF items = <<>> THEN <<>>
    ELSE <<Block(Head(items))>> \o Blocks(Tail(items))

\* lines 130-135: the single candidate message
BuildMessage(items) == <<Header>> \o Blocks(items)

\* line 156: adding this offer would exceed the limit
Exceeds_AtLimit(cur, offer_text) ==
    TextLen(cur) + TextLen(offer_text) >= MsgLimit
Exceeds(cur, offer_text) == TextLen(cur) + TextLen(offer_text) > MsgLimit

\* line 158: the message started after sealing the current one
StartNew_WithHeader(offer_text) == <<Header>> \o offer_text
StartNew(offer_text) == offer_text

RECURSIVE PackLoop(_, _, _)
\* lines 153-163: the greedy loop and the append of the remaining text
PackLoop(msgs, cur, items) ==
    IF items = <<>>
    THEN IF cur # <<>> THEN Append(msgs, cur) ELSE msgs
    ELSE LET offer_text == <<Block(Head(items))>>
         IN  IF Exceeds(cur, offer_text)
             THEN PackLoop(Append(msgs, cur), StartNew(offer_text),
                           Tail(items))
             ELSE PackLoop(msgs, cur \o offer_text, Tail(items))

\* lines 150-163: header = ...; messages = []; current_message = header
PackMessages(items) == PackLoop(<<>>, <<Header>>, items)

(* The transport (twilio_client.messages.create): it returns a message, or *)
(* raises; the program tells the errors apart by "1600" in str(e).  A body *)
(* over the limit is never accepted.                                       *)
Outcomes(body) ==
    IF TextLen(body) > MsgLimit
    THEN {"error_1600", "error_other"}
    ELSE {"sent", "error_1600", "error_other"}

\* lines 125-163: the early return, the candidate message and its send; on
\* the 1600 error, the packing of the parts
Notify ==
    /\ pc = "notify"
    /\ IF new_offers = <<>>
       THEN /\ pc' = "idle"
            /\ UNCHANGED notifyVars
       ELSE /\ message_text' = BuildMessage(new_offers)
            /\ \E o \in Outcomes(message_text') :
                /\ calls' = Append(calls, [body |-> message_text',
                                           outcome |-> o])
                /\ IF o = "error_1600"
                   THEN /\ messages' = PackMessages(new_offers)
                        /\ mi' = 1
                        /\ pc' = "parts"
                   ELSE /\ pc' = "idle"
                        /\ UNCHANGED <<messages, mi>>
    /\ UNCHANGED <<run, fetchVars, mergeVars, store, diffVars, hist>>

\* where the loop over the parts goes after the send of part i
AfterPart_StopOnError(i, o) ==
    IF o = "sent" /\ i < Len(messages) THEN "parts" ELSE "idle"
AfterPart(i, o) == IF i < Len(messages) THEN "parts" ELSE "idle"

\* lines 166-175: one iteration of the loop over the parts
SendPart ==
    /\ pc = "parts"
    /\ mi <= Len(messages)
    /\ \E o \in Outcomes(messages[mi]) :
        /\ calls' = Append(calls, [body |-> messages[mi], outcome |-> o])
        /\ pc' = AfterPart(mi, o)
    /\ mi' = mi + 1
    /\ UNCHANGED <<run, fetchVars, mergeVars, store, diffVars,
                   message_text, messages, hist>>

(* send_notification alone, on every list of at most MaxOffers items. *)
NotifyTitles == Titles \cup {1550, 1660}
NotifyOffers ==
    [id : Ids, title : NotifyTitles, price : Prices, permalink : Links]
OfferLists == UNION {[1..n -> NotifyOffers] : n \in 0..MaxOffers}

---------------------------------------------------------------------------
(* The offer store: the rows of table offers (id is the primary key).      *)
(* The timestamp column is written by the default of the insert and read   *)
(* by nothing in the program; the rows are modelled without it.            *)
Row(item) == [id |-> item.id, title |-> item.title, price |-> item.price,
              permalink |-> item.permalink]

\* get_existing_offer_ids: SELECT id FROM offers
StoreIds(rows) == {r.id : r \in rows}

\* add_offer_to_db: INSERT OR IGNORE
Insert_Dropped(rows, item) == rows
Insert(rows, item) ==
    IF item.id \in StoreIds(rows) THEN rows ELSE rows \cup {Row(item)}

\* remove_offer_from_db: DELETE FROM offers WHERE id = ?
Delete_All(rows, id) == {}
Delete(rows, id) == {r \in rows : r.id # id}

\* what the database file may hold when the process starts
StoreContents ==
    {{Row(o) : o \in S} :
        S \in {T \in SUBSET Offers : \A a, b \in T : a.id = b.id => a = b}}

---------------------------------------------------------------------------
(* job. *)

(* fetch_offers as one step: the exchange with the endpoint is the         *)
(* sequence of the pages it served, each but the last a full page; the     *)
(* loop is the one FetchPage steps through.                                *)
RECURSIVE FetchLoop(_, _, _)
FetchLoop(d, pages, off) ==
    LET k  == (off \div PageSize) + 1
        r  == IF k <= Len(pages) THEN pages[k] ELSE Page(<<>>)
        d2 == PageStep(d, r)
    IN  IF Continues(r, off)
        THEN FetchLoop(d2, pages, off + PageSize)
        ELSE [offers |-> d2, failed |-> r.status = "exception"]

fetch_offers(pages) == FetchLoop(<<>>, pages, 0)

PageSeqs ==
    {p \in UNION {[1..n -> Responses] : n \in 1..MaxPages} :
        \A i \in 1..(Len(p) - 1) : p[i] \in FullPages}

FetchResults == {fetch_offers(p) : p \in PageSeqs}

\* line 194: if not current_offers
NothingFetched_Never(d) == FALSE
NothingFetched(d) == d = <<>>

\* line 203: the items of the merged results whose id is not in the snapshot
NewOffers_All(d, existing) == d
NewOffers(d, existing) == SelectSeq(d, LAMBDA item : item.id \notin existing)

\* line 210: existing_offer_ids - current_offer_ids
Disappeared_None(existing, current) == {}
Disappeared(existing, current) == existing \ current

\* whether the notification of a run left offers unannounced: the
\* candidate failed other than by length, or a part failed
NotificationFailed(cs) ==
    /\ cs # <<>>
    /\ IF cs[1].outcome = "error_1600"
       THEN \E i \in 2..Len(cs) : cs[i].outcome # "sent"
       ELSE cs[1].outcome # "sent"

(* History across runs, brought up to date when a run starts, from what    *)
(* the run before left:                                                    *)
(*   store0   the rows at the start of the run;                            *)
(*   lost     ids whose notification failed and that have stayed in the    *)
(*            results since (Diff drops the ones no longer returned);      *)
(*   dropped  ids removed by a run in which a fetch failed, and not        *)
(*            returned since;                                              *)
(*   told     ids whose candidate message was accepted by the transport.   *)
NextHist ==
    [store0  |-> store,
     lost    |-> hist.lost \cup
                 (IF NotificationFailed(calls) THEN Keys(new_offers) ELSE {}),
     dropped |-> (hist.dropped \ Keys(all_current_offers)) \cup
                 (IF fetched.failed THEN disappeared_offer_ids ELSE {}),
     told    |-> hist.told \cup
                 (IF calls # <<>> /\ calls[1].outcome = "sent"
                  THEN Keys(new_offers) ELSE {})]

\* main: job() at startup, then every hour from the scheduler loop
RunJob ==
    /\ pc = "idle"
    /\ run < MaxRuns
    /\ run' = run + 1
    /\ pc' = "loop"
    /\ qi' = 1
    /\ fetched' = NoneFetched
    /\ all_current_offers' = <<>>
    /\ existing_offer_ids' = {}
    /\ new_offers' = <<>>
    /\ ai' = 1
    /\ disappeared_offer_ids' = {}
    /\ removed' = {}
    /\ message_text' = <<>>
    /\ messages' = <<>>
    /\ mi' = 1
    /\ calls' = <<>>
    /\ hist' = NextHist
    /\ UNCHANGED <<fetchVars, store>>

\* lines 187-191: one iteration of the loop over the search terms
FetchTerm ==
    /\ pc = "loop"
    /\ qi <= Len(lista_busquedas)
    /\ \E r \in FetchResults :
        /\ fetched' = Fetched(fetched, r.offers, r.failed)
        /\ all_current_offers' = Merge(all_current_offers, r.offers)
    /\ qi' = qi + 1
    /\ UNCHANGED <<pc, run, fetchVars, store, diffVars, notifyVars, hist>>

\* lines 193-204: the empty guard, the snapshot of the stored ids and the
\* list of new offers
Diff ==
    /\ pc = "loop"
    /\ qi > Len(lista_busquedas)
    /\ IF NothingFetched(all_current_offers)
       THEN /\ pc' = "idle"
            /\ UNCHANGED <<diffVars, hist>>
       ELSE /\ existing_offer_ids' = StoreIds(store)
            /\ new_offers' = NewOffers(all_current_offers, StoreIds(store))
            /\ ai' = 1
            /\ pc' = "add"
            /\ hist' = [hist EXCEPT !.lost = @ \cap Keys(all_current_offers)]
            /\ UNCHANGED <<disappeared_offer_ids, removed>>
    /\ UNCHANGED <<run, fetchVars, mergeVars, store, notifyVars>>

\* lines 206-207: one iteration of the loop over new_offers
AddOffer ==
    /\ pc = "add"
    /\ ai <= Len(new_offers)
    /\ store' = Insert(store, new_offers[ai])
    /\ ai' = ai + 1
    /\ UNCHANGED <<pc, run, fetchVars, mergeVars, existing_offer_ids,
                   new_offers, disappeared_offer_ids, removed, notifyVars,
                   hist>>

\* lines 210-211
ComputeDisappeared ==
    /\ pc = "add"
    /\ ai > Len(new_offers)
    /\ disappeared_offer_ids' =
           Disappeared(existing_offer_ids, Keys(all_current_offers))
    /\ removed' = {}
    /\ pc' = "remove"
    /\ UNCHANGED <<run, fetchVars, mergeVars, store, existing_offer_ids,
                   new_offers, ai, notifyVars, hist>>

\* lines 212-213: one iteration of the loop over the set, in any order
RemoveOffer ==
    /\ pc = "remove"
    /\ \E id \in disappeared_offer_ids \ removed :
        /\ store' = Delete(store, id)
        /\ removed' = removed \cup {id}
    /\ UNCHANGED <<pc, run, fetchVars, mergeVars, existing_offer_ids,
                   new_offers, ai, disappeared_offer_ids, notifyVars, hist>>

\* lines 215-220
Decide ==
    /\ pc = "remove"
    /\ removed = disappeared_offer_ids
    /\ pc' = IF new_offers # <<>> THEN "notify" ELSE "idle"
    /\ UNCHANGED <<run, fetchVars, mergeVars, store, diffVars, notifyVars,
                   hist>>

\* a sqlite call raises: nothing in job or main catches it, the process ends
StoreError ==
    /\ \/ pc = "loop" /\ qi > Len(lista_busquedas)
                      /\ ~NothingFetched(all_current_offers)
       \/ pc = "add" /\ ai <= Len(new_offers)
       \/ pc = "remove" /\ removed # disappeared_offer_ids
    /\ pc' = "crashed"
    /\ UNCHANGED <<run, fetchVars, mergeVars, store, diffVars, notifyVars,
                   hist>>

Init ==
    /\ pc = "idle"
    /\ run = 0
    /\ qi = 1
    /\ offset = 0
    /\ all_offers = <<>>
    /\ response = NoResponse
    /\ requests = <<>>
    /\ fetched = NoneFetched
    /\ all_current_offers = <<>>
    /\ store \in StoreContents
    /\ existing_offer_ids = {}
    /\ new_offers = <<>>
    /\ ai = 1
    /\ disappeared_offer_ids = {}
    /\ removed = {}
    /\ message_text = <<>>
    /\ messages = <<>>
    /\ mi = 1
    /\ calls = <<>>
    /\ hist = [store0 |-> store, lost |-> {}, dropped |-> {}, told |-> {}]

Next ==
    \/ RunJob
    \/ FetchTerm
    \/ Diff
    \/ AddOffer
    \/ ComputeDisappeared
    \/ RemoveOffer
    \/ Decide
    \/ StoreError
    \/ Notify
    \/ SendPart

Spec == Init /\ [][Next]_vars

NoHist == [store0 |-> {}, lost |-> {}, dropped |-> {}, told |-> {}]

InitFetch ==
    /\ pc = "loop"
    /\ run = 1
    /\ qi = 1
    /\ offset = 0
    /\ all_offers = <<>>
    /\ response = NoResponse
    /\ requests = <<>>
    /\ fetched = NoneFetched
    /\ all_current_offers = <<>>
    /\ store = {}
    /\ existing_offer_ids = {}
    /\ new_offers = <<>>
    /\ ai = 1
    /\ disappeared_offer_ids = {}
    /\ removed = {}
    /\ message_text = <<>>
    /\ messages = <<>>
    /\ mi = 1
    /\ calls = <<>>
    /\ hist = NoHist

InitNotify ==
    /\ pc = "notify"
    /\ run = 1
    /\ qi = 1
    /\ offset = 0
    /\ all_offers = <<>>
    /\ response = NoResponse
    /\ requests = <<>>
    /\ fetched = NoneFetched
    /\ all_current_offers = <<>>
    /\ store = {}
    /\ existing_offer_ids = {}
    /\ new_offers \in OfferLists
    /\ ai = 1
    /\ disappeared_offer_ids = {}
    /\ removed = {}
    /\ message_text = <<>>
    /\ messages = <<>>
    /\ mi = 1
    /\ calls = <<>>
    /\ hist = NoHist

NextNotify == Notify \/ SendPart
SpecNotify == InitNotify /\ [][NextNotify]_vars

NextFetch == CallFetch \/ FetchPage \/ MergeOffers
SpecFetch == InitFetch /\ [][NextFetch]_vars

---------------------------------------------------------------------------
(* Properties of fetch_offers and of the merge (checked under SpecFetch).  *)

\* a request was issued by this step
Requested == Len(requests') > Len(requests)

\* the first item of res with id k
FirstWith(res, k) ==
    res[CHOOSE i \in DOMAIN res :
            /\ res[i].id = k
            /\ \A j \in 1..(i - 1) : res[j].id # k]

\* C7: the offsets requested by a call are 0, 50, 100, ... in this order
\* and at most 21 of them; a further request is issued only after a page
\* of at least 50 results that arrived without an exception; and a request
\* that fails leaves the accumulated offers as they were and ends the
\* call by its return, whose list is those offers.
C7_Pagination ==
    /\ [](/\ \A i \in DOMAIN requests : requests[i] = 50 * (i - 1)
          /\ Len(requests) <= 21)
    /\ [][Requested /\ requests # <<>> =>
              response.status = "ok" /\ Len(response.results) >= 50]_vars
    /\ [][Requested /\ response'.status = "exception" =>
              all_offers' = all_offers /\ pc' = "return"]_vars
    /\ [][pc = "return" /\ pc' # "return" =>
              /\ pc' = "loop"
              /\ Keys(all_current_offers') =
                     Keys(all_current_offers) \cup Keys(all_offers)]_vars

\* the 21st request of a call fails and the call returns what it has
C7_Witness ==
    /\ pc = "return"
    /\ Len(requests) = 21
    /\ requests[21] = 1000
    /\ response.status = "exception"
    /\ all_offers # <<>>

\* C8: no id is twice in the dict of a call; a page leaves the record of an
\* id already held as it is and gives a new id the record of its first
\* occurrence in the page, so that the list returned holds, for each id,
\* the record of the first page that contained it; and the merge of a
\* returned list gives every id of the list the record of the list and
\* leaves the other ids with the record of the earlier terms.
C8_WhichRecordWins ==
    /\ [](UniqueIds(all_offers) /\ UniqueIds(all_current_offers))
    /\ [][Requested =>
            /\ Keys(all_offers') =
                   Keys(all_offers) \cup Keys(response'.results)
            /\ \A k \in Keys(all_offers') :
                   Get(all_offers', k) =
                       IF k \in Keys(all_offers) THEN Get(all_offers, k)
                       ELSE FirstWith(response'.results, k)]_vars
    /\ [][pc = "return" /\ pc' = "loop" =>
            /\ Keys(all_current_offers') =
                   Keys(all_current_offers) \cup Keys(all_offers)
            /\ \A k \in Keys(all_current_offers') :
                   Get(all_current_offers', k) =
                       IF k \in Keys(all_offers) THEN Get(all_offers, k)
                       ELSE Get(all_current_offers, k)]_vars

\* the second term returns, after two pages, an id under another record
\* than the first term's, and its last page held that id under a record
\* that lost against the one of the earlier page
C8_Witness ==
    /\ pc = "return"
    /\ qi = 2
    /\ Len(requests) = 2
    /\ \E k \in Keys(all_offers) \cap Keys(all_current_offers) :
           /\ Get(all_offers, k) # Get(all_current_offers, k)
           /\ \E i \in DOMAIN response.results :
                  /\ response.results[i].id = k
                  /\ response.results[i] # Get(all_offers, k)

---------------------------------------------------------------------------
(* Properties of job (checked under Spec).                                 *)

\* the run passed the empty guard and its store operations are done
\* (between runs the variables hold what the last run left)
StoreDone ==
    \/ pc \in {"notify", "parts"}
    \/ pc = "idle" /\ run >= 1 /\ all_current_offers # <<>>

\* the run passed the empty guard and computed its list of new offers
DiffDone == pc \in {"add", "remove"} \/ StoreDone

\* disappeared_offer_ids has been computed
RemovalKnown == pc = "remove" \/ StoreDone

\* the row of id k, if any
RowsOf(rows, k) == {r \in rows : r.id = k}

\* C1: once every term of a run has been fetched and none returned an
\* offer, the run does nothing but return: the store stays as it was at
\* the start of the run and the transport is not called.
C1_EmptyGuard ==
    (run >= 1 /\ qi > Len(lista_busquedas) /\ ~fetched.any) =>
        /\ store = hist.store0
        /\ calls = <<>>
        /\ pc \in {"loop", "idle"}

\* a run over a non-empty store in which a fetch failed and nothing came
\* back has returned
C1_Witness ==
    /\ pc = "idle"
    /\ run >= 1
    /\ qi > Len(lista_busquedas)
    /\ ~fetched.any
    /\ fetched.failed
    /\ store # {}

\* C2: when a run whose merged results are not empty has done its store
\* operations (none failed), the ids in the store are the ids of the merged
\* results.
C2_StoreConvergence ==
    StoreDone => StoreIds(store) = Keys(all_current_offers)

\* a run has returned whose store held, at its start, only an id that the
\* results lack, and the notification of the new offer was accepted
C2_Witness ==
    /\ pc = "idle"
    /\ StoreDone
    /\ hist.store0 # {}
    /\ StoreIds(hist.store0) \cap Keys(all_current_offers) = {}
    /\ calls # <<>>
    /\ calls[1].outcome = "sent"

\* C3: past the diff, the snapshot is the ids stored at the start of the
\* run; new_offers holds, once each, the merged offers whose id is not in
\* the snapshot; disappeared_offer_ids is the snapshot minus the ids of the
\* merged results; the two are disjoint; and an id both stored and returned
\* keeps the row it had, is not in new_offers and is in no message.
C3_DiffCorrectness ==
    DiffDone =>
        /\ existing_offer_ids = StoreIds(hist.store0)
        /\ UniqueIds(new_offers)
        /\ Keys(new_offers) = Keys(all_current_offers) \ existing_offer_ids
        /\ \A i \in DOMAIN new_offers :
               new_offers[i] = Get(all_current_offers, new_offers[i].id)
        /\ RemovalKnown =>
               /\ disappeared_offer_ids =
                      existing_offer_ids \ Keys(all_current_offers)
               /\ disappeared_offer_ids \cap Keys(new_offers) = {}
        /\ \A k \in existing_offer_ids \cap Keys(all_current_offers) :
               /\ RowsOf(store, k) = RowsOf(hist.store0, k)
               /\ k \notin Keys(new_offers)
        /\ \A i \in DOMAIN calls : calls[i].body \in
               {message_text} \cup {messages[j] : j \in DOMAIN messages}
        /\ message_text # <<>> => message_text = BuildMessage(new_offers)

\* a run with a new offer, a disappeared offer: one id stored and not
\* returned, the other returned and not stored
C3_Witness ==
    /\ pc = "idle"
    /\ StoreDone
    /\ new_offers # <<>>
    /\ disappeared_offer_ids # {}

\* a run that keeps one id and adds the other
C3_WitnessKept ==
    /\ pc = "notify"
    /\ existing_offer_ids \cap Keys(all_current_offers) # {}
    /\ new_offers # <<>>

\* C9: the store changes only while the transport has not been called in
\* the run, and no transport call changes it; the offers whose
\* notification failed are in the store for as long as they are returned,
\* and no later run lists them as new.
C9_StoreBeforeNotify ==
    /\ [][store' # store => calls = <<>> /\ calls' = <<>>]_vars
    /\ [][calls' # calls /\ calls' # <<>> => store' = store]_vars
    /\ [](hist.lost \subseteq StoreIds(store))
    /\ [](Keys(new_offers) \cap hist.lost = {})

\* a later run, past its diff, with another new offer to announce while an
\* offer whose notification failed is still returned
C9_Witness ==
    /\ pc = "notify"
    /\ run >= 2
    /\ hist.lost # {}
    /\ hist.lost \subseteq Keys(all_current_offers)

\* C10: when a run in which a fetch failed has done its store operations,
\* no id stored at its start and absent from the merged results is in the
\* store; and in the next run that returns such an id, the id is not in
\* the snapshot, is in new_offers, is in the store again once the adds are
\* done, and its block is in the candidate message given to the transport.
C10_FalseDeletion ==
    /\ (StoreDone /\ fetched.failed) =>
           StoreIds(store) \cap
               (StoreIds(hist.store0) \ Keys(all_current_offers)) = {}
    /\ DiffDone =>
           \A k \in hist.dropped \cap Keys(all_current_offers) :
               /\ k \notin existing_offer_ids
               /\ k \in Keys(new_offers)
               /\ RemovalKnown => k \in StoreIds(store)
               /\ (pc \in {"parts", "idle"}) =>
                      /\ calls # <<>>
                      /\ calls[1].body = BuildMessage(new_offers)
                      /\ \E i \in DOMAIN calls[1].body :
                             calls[1].body[i] =
                                 Block(Get(new_offers, k))

\* an offer announced by one run, removed by a run in which a fetch
\* failed, and announced again by the run that got it back
C10_Witness ==
    /\ pc = "idle"
    /\ run = 3
    /\ calls # <<>>
    /\ calls[1].outcome = "sent"
    /\ \E k \in hist.dropped \cap hist.told : k \in Keys(new_offers)

---------------------------------------------------------------------------
(* Properties of send_notification (checked under SpecNotify unless said   *)
(* otherwise).                                                             *)

\* the split path was taken: the candidate message drew the 1600 error
SplitTaken ==
    /\ pc \in {"parts", "idle"}
    /\ calls # <<>>
    /\ calls[1].outcome = "error_1600"

\* the candidate was over the limit and no single offer block is
OverLimitOnly ==
    /\ SplitTaken
    /\ TextLen(message_text) > MsgLimit
    /\ \A i \in DOMAIN new_offers :
           PieceLen(Block(new_offers[i])) <= MsgLimit

NoPartOverLimit == \A i \in DOMAIN messages : TextLen(messages[i]) <= MsgLimit

\* least number of messages of at most MsgLimit characters that hold the
\* pieces of text whole, in any arrangement
MinAnyOrder(text) ==
    LET n == Len(text)
        Fits(k) ==
            \E f \in [1..n -> 1..k] :
                \A b \in 1..k :
                    LET sq == Ascending({i \in 1..n : f[i] = b})
                    IN  TextLen([j \in DOMAIN sq |-> text[sq[j]]])
                            <= MsgLimit
    IN  CHOOSE k \in 1..n : Fits(k) /\ \A m \in 1..(k - 1) : ~Fits(m)

\* least number of messages of at most MsgLimit characters that hold the
\* pieces of text whole and in their order: text cut after the positions
\* in cuts
MinInOrder(text) ==
    LET n == Len(text)
        Ok(cuts) ==
            \A s \in {1} \cup {c + 1 : c \in cuts} :
                LET after == {c \in cuts : c >= s}
                    e == IF after = {} THEN n
                         ELSE CHOOSE c \in after : \A d \in after : c <= d
                IN  TextLen(SubSeq(text, s, e)) <= MsgLimit
        Sizes == {Cardinality(cuts) + 1 :
                     cuts \in {c \in SUBSET (1..(n - 1)) : Ok(c)}}
    IN  CHOOSE k \in Sizes : \A m \in Sizes : k <= m

\* C4 as stated: on the split path, with the candidate over the limit and
\* every offer block within it, the parts are within the limit and are as
\* few as any packing of the header and the whole blocks allows.
C4_MinimumMessages ==
    OverLimitOnly =>
        NoPartOverLimit /\ Len(messages) = MinAnyOrder(message_text)

\* C4 amended: on the split path, with the candidate over the limit and
\* every offer block within it, the parts are within the limit and are as
\* few as any split allows that keeps the header and the blocks whole and
\* in their original order.
C4_MinimumInOrder ==
    OverLimitOnly =>
        NoPartOverLimit /\ Len(messages) = MinInOrder(message_text)

\* three blocks (700, 1574, 700) under a 3000-character candidate: three
\* parts are sent although two messages could hold the pieces
C4_Witness ==
    /\ OverLimitOnly
    /\ TextLen(message_text) = 3000
    /\ Len(messages) = 3
    /\ pc = "idle"

RECURSIVE Flatten(_)
Flatten(parts) ==
    IF parts = <<>> THEN <<>> ELSE Head(parts) \o Flatten(Tail(parts))

\* C5: on the split path the parts, concatenated in order, are the header
\* followed by the blocks of new_offers in list order, and no part is
\* empty: every block is whole in exactly one part, none dropped,
\* duplicated or reordered.
C5_AtomicBlocks ==
    SplitTaken =>
        /\ Flatten(messages) = <<Header>> \o Blocks(new_offers)
        /\ Flatten(messages) = message_text
        /\ \A i \in DOMAIN messages : messages[i] # <<>>

C5_Witness ==
    /\ SplitTaken
    /\ Len(new_offers) = 3
    /\ Len(messages) = 2
    /\ Len(messages[1]) = 2
    /\ Len(messages[2]) = 2
    /\ pc = "idle"

\* C6: on the split path the transport calls after the candidate's are the
\* parts, each once and in order, whatever the earlier outcomes were: while
\* the loop runs, parts 1..mi-1 have been attempted, and once
\* send_notification has returned every part has been.
C6_IndependentParts ==
    SplitTaken =>
        /\ \A i \in 2..Len(calls) : calls[i].body = messages[i - 1]
        /\ pc = "parts" => Len(calls) = mi /\ mi <= Len(messages)
        /\ pc = "idle" => Len(calls) = Len(messages) + 1

C6_Witness ==
    /\ SplitTaken
    /\ pc = "idle"
    /\ Len(messages) = 3
    /\ calls[2].outcome # "sent"
    /\ calls[3].outcome # "sent"
    /\ calls[4].outcome = "sent"

===========================================================================
